---- MODULE Spec2Model ----
(***************************************************************************)
(* Model of fetch.py: the Stud.IP export client.  The script fetches the   *)
(* current user, the user's courses and the semesters, and then mirrors    *)
(* every course's folder tree under data/<semester>/<course>/.             *)
(*                                                                         *)
(* Strings are sequences of one-character strings, so that replace(),      *)
(* concatenation and the splitting of a path into directory levels are     *)
(* computed and not assumed.  The server is a value chosen in Init; every  *)
(* HTTP request is one step whose outcome (200 with the resource, 200      *)
(* with a body that has no 'data' key, 404) is chosen at that step.        *)
(***************************************************************************)
EXTENDS Integers, Sequences, FiniteSets, TLC

VARIABLES
    srv,          \* the server: the courses of the user, their folder trees
    budget,       \* how many more requests the transport may fail
    pc,           \* position of the top-level script
    my_id,        \* me['id']
    memberships,  \* fetch_my_courses: memberships
    courses,      \* fetch_my_courses: courses / module level: courses
    semesters,    \* module level: semesters
    ci,           \* index of the course the for loop of line 173 is at
    stack,        \* the activations of fetch_files, innermost last
    fs_dirs,      \* local directories, each a sequence of path segments
    fs_files,     \* local files: path segments -> what was written
    fetches,      \* history: the calls of fetch
    downloads,    \* history: the calls of download_file
    entered,      \* history: the per-folder steps entered (line 88 reached)
    rootres,      \* history: the calls of fetch_root_folder
    err           \* the unhandled exception that ended the run, if any

vars == <<srv, budget, pc, my_id, memberships, courses, semesters, ci, stack,
          fs_dirs, fs_files, fetches, downloads, entered, rootres, err>>

\* ------------------------------------------------------------------ bounds
MaxCourses == 2   \* courses the user is a member of
MaxFaults == 1    \* requests that may not succeed in one run

\* ------------------------------------------------------- program constants
DefaultOffset == 0
DefaultLimit == 10
MembershipsLimit == 500
SemestersLimit == 100
FileRefsLimit == 1000
SubfoldersLimit == 1000
StatusOK == 200
StatusNotFound == 404

\* ----------------------------------------------------------------- strings
Slash == "/"
Underscore == "_"
DataDir == <<"d", "a", "t", "a">>

\* str.replace(old, new) for one-character old and new
Replace(s, old, new) == [i \in 1..Len(s) |-> IF s[i] = old THEN new ELSE s[i]]

\* Python truthiness of a string or None: '' and None are both falsy
Truthy(s) == Len(s) > 0

\* the position of the first '/' in s, 0 if there is none
FirstSlash(s) ==
    IF \E i \in 1..Len(s) : s[i] = Slash
    THEN CHOOSE i \in 1..Len(s) : s[i] = Slash /\ \A j \in 1..(i-1) : s[j] # Slash
    ELSE 0

\* the directory levels the operating system resolves a relative path to:
\* the '/'-separated components, empty components (from '//' or a trailing
\* '/') dropped
RECURSIVE Split(_)
Split(s) ==
    IF Len(s) = 0 THEN <<>>
    ELSE LET k == FirstSlash(s)
         IN IF k = 0 THEN <<s>>
            ELSE LET head == SubSeq(s, 1, k - 1)
                     rest == Split(SubSeq(s, k + 1, Len(s)))
                 IN IF Len(head) = 0 THEN rest ELSE <<head>> \o rest

Front(s) == SubSeq(s, 1, Len(s) - 1)
IsPrefix(p, s) == Len(p) <= Len(s) /\ SubSeq(s, 1, Len(p)) = p
Min(a, b) == IF a < b THEN a ELSE b

\* ------------------------------------------------------------- the server
\* Identifiers are non-empty tuples: <<0>> the user, <<c>> course c,
\* <<c, k>> folder k of course c, <<c, k, j>> the j-th file of that folder.
NoId == <<>>
UserId == <<0>>
RootTag == "RootFolder"
OtherTag == "StandardFolder"

Letters == <<"a", "b", "c", "d", "e", "f", "g", "h", "i", "j", "k", "l">>

Na == <<"a">>
Nab == <<"a", "/", "b">>
Ne == <<"e">>
Nf == <<"f">>
Nfg == <<"f", "/", "g">>

\* the semesters the server knows: id -> title
SemesterTable == <<<<"w">>, <<"w", "/", "s">>>>

\* a course's folder tree, folder 1 the root: a root-level file, a folder
\* n1 with two files, below it a folder b with the file f, and an empty
\* folder e next to n1
Tree(n1, e, f) ==
    [k \in 1..4 |->
        CASE k = 1 -> [name |-> <<>>, files |-> << <<"r">> >>, subs |-> <<2, 4>>]
          [] k = 2 -> [name |-> n1, files |-> << <<"x">>, <<"y">> >>, subs |-> <<3>>]
          [] k = 3 -> [name |-> <<"b">>, files |-> <<f>>, subs |-> <<>>]
          [] k = 4 -> [name |-> e, files |-> <<>>, subs |-> <<>>]]

\* a root with one file and no subfolder
SmallTree ==
    [k \in 1..1 |-> [name |-> <<>>, files |-> << <<"r">> >>, subs |-> <<>>]]

\* a root with one more subfolder than the default page holds, all empty
WideTree ==
    [k \in 1..(DefaultLimit + 1) |->
        IF k = 1
        THEN [name |-> <<>>, files |-> << <<"r">> >>,
              subs |-> [i \in 1..DefaultLimit |-> i + 1]]
        ELSE [name |-> <<Letters[k]>>, files |-> <<>>, subs |-> <<>>]]

\* the order in which /courses/{id}/folders lists the folders of a tree of
\* n folders: the root at position rootPos, or left out when rootPos = 0
FolderList(n, rootPos) ==
    LET others == [i \in 1..(n - 1) |-> i + 1]
    IN IF rootPos = 0 THEN others
       ELSE SubSeq(others, 1, rootPos - 1) \o <<1>> \o SubSeq(others, rootPos, n - 1)

Course(title, sem, tree, rootPos) ==
    [title |-> title, sem |-> sem, tree |-> tree,
     list |-> FolderList(Len(tree), rootPos)]

PlainTitle == <<"c">>
SlashTitle == <<"c", "/", "d">>

\* what the first course of the user may be
FirstKinds ==
    {Course(PlainTitle, 1, Tree(Na, Ne, Nf), 1),
     Course(SlashTitle, 2, Tree(Nab, Ne, Nf), 1),
     Course(PlainTitle, 1, Tree(Na, Na, Nf), 1),
     Course(PlainTitle, 1, Tree(Nab, Na, Nf), 1),
     Course(PlainTitle, 1, Tree(Na, Ne, Nfg), 1),
     Course(PlainTitle, 1, Tree(<<"r">>, Ne, Nf), 1),
     Course(PlainTitle, 1, Tree(Na, Ne, Nf), 0),
     Course(PlainTitle, 1, WideTree, 1),
     Course(PlainTitle, 1, WideTree, DefaultLimit + 1),
     Course(PlainTitle, 3, SmallTree, 1)}

\* what the courses after the first may be
NextKinds ==
    {Course(PlainTitle, 1, SmallTree, 1),
     Course(SlashTitle, 2, SmallTree, 1)}

Servers ==
    UNION {{<<first>> \o rest : first \in FirstKinds, rest \in [1..n -> NextKinds]}
           : n \in 0..(MaxCourses - 1)}

FolderExists(fid) ==
    /\ Len(fid) = 2
    /\ fid[1] \in 1..Len(srv)
    /\ fid[2] \in 1..Len(srv[fid[1]].tree)

Folder(fid) == srv[fid[1]].tree[fid[2]]

Route(kind, id) == [kind |-> kind, id |-> id]

RouteExists(route) ==
    CASE route.kind = "me" -> TRUE
      [] route.kind = "memberships" -> route.id = UserId
      [] route.kind = "course" -> Len(route.id) = 1 /\ route.id[1] \in 1..Len(srv)
      [] route.kind = "semesters" -> TRUE
      [] route.kind = "course-folders" -> Len(route.id) = 1 /\ route.id[1] \in 1..Len(srv)
      [] route.kind = "file-refs" -> FolderExists(route.id)
      [] route.kind = "folders" -> FolderExists(route.id)
      [] OTHER -> FALSE

\* the resource behind a route; a collection is a sequence
Resource(route) ==
    CASE route.kind = "me" -> [id |-> UserId]
      [] route.kind = "memberships" -> [c \in 1..Len(srv) |-> [course |-> <<c>>]]
      [] route.kind = "course" ->
            [id |-> route.id, title |-> srv[route.id[1]].title,
             sem |-> srv[route.id[1]].sem]
      [] route.kind = "semesters" ->
            [i \in 1..Len(SemesterTable) |-> [id |-> i, title |-> SemesterTable[i]]]
      [] route.kind = "course-folders" ->
            LET c == route.id[1]
            IN [i \in 1..Len(srv[c].list) |->
                  [id |-> <<c, srv[c].list[i]>>,
                   type |-> IF srv[c].list[i] = 1 THEN RootTag ELSE OtherTag]]
      [] route.kind = "file-refs" ->
            [j \in 1..Len(Folder(route.id).files) |->
                  [id |-> route.id \o <<j>>, name |-> Folder(route.id).files[j]]]
      [] route.kind = "folders" ->
            [j \in 1..Len(Folder(route.id).subs) |->
                  [id |-> <<route.id[1], Folder(route.id).subs[j]>>,
                   name |-> srv[route.id[1]].tree[Folder(route.id).subs[j]].name]]

IsCollection(route) == route.kind \notin {"me", "course"}

\* the page of a collection that the query parameters select
Page(list, query) ==
    IF query = <<>> THEN list
    ELSE SubSeq(list, query[1] + 1, Min(Len(list), query[1] + query[2]))

EmptyMap == [kind |-> "empty", data |-> <<>>]
NoKeyBody == [kind |-> "nokey", data |-> <<>>]

\* the server's answer to one GET: outcome "fail" is a non-success status,
\* "nokey" a success whose body has no 'data' key
Serve(url, outcome) ==
    IF outcome = "fail" \/ ~RouteExists(url.route)
    THEN [status |-> StatusNotFound, body |-> NoKeyBody]
    ELSE [status |-> StatusOK,
          body |-> IF outcome = "nokey" THEN NoKeyBody
                   ELSE [kind |-> "data",
                         data |-> IF IsCollection(url.route)
                                  THEN Page(Resource(url.route), url.query)
                                  ELSE Resource(url.route)]]

Outcomes == IF budget > 0 THEN {"ok", "fail", "nokey"} ELSE {"ok"}
ContentOutcomes == IF budget > 0 THEN {"ok", "fail"} ELSE {"ok"}
Spend(outcome) == IF outcome = "ok" THEN budget ELSE budget - 1

\* fetch adding the pagination parameters whatever noparams says
FetchAlwaysPaged(route, offset, limit, noparams, outcome) ==
    LET url == [route |-> route, query |-> <<offset, limit>>]
        response_data == Serve(url, outcome)
    IN [gets |-> <<url>>,
        status |-> response_data.status,
        result |-> IF response_data.status # StatusOK THEN EmptyMap
                   ELSE response_data.body]

\* ------------------------------------------------------------------ fetch
\* fetch(url, offset, limit, noparams): the GETs it issues, the status it
\* saw and what it returns
Fetch(route, offset, limit, noparams, outcome) ==
    LET url == IF ~noparams
               THEN [route |-> route, query |-> <<offset, limit>>]
               ELSE [route |-> route, query |-> <<>>]
        response_data == Serve(url, outcome)
    IN [gets |-> <<url>>,
        status |-> response_data.status,
        result |-> IF response_data.status # StatusOK THEN EmptyMap
                   ELSE response_data.body]

\* bool(response) of a mapping: {} is falsy
NonEmpty(result) == result.kind # "empty"
\* 'data' in response
HasData(result) == result.kind = "data"

FetchEntry(route, offset, limit, noparams, r) ==
    [route |-> route, offset |-> offset, limit |-> limit, noparams |-> noparams,
     gets |-> r.gets, status |-> r.status, result |-> r.result.kind, course |-> ci]

\* an exception caught around the body of the course loop
RaiseIsolated(kind) ==
    /\ pc' = "loop"
    /\ err' = [kind |-> kind, course |-> ci]
    /\ ci' = ci + 1
    /\ stack' = <<>>

\* an exception nobody catches ends the script
Raise(kind) ==
    /\ pc' = "aborted"
    /\ err' = [kind |-> kind, course |-> ci]
    /\ UNCHANGED <<ci, stack>>

NoErr == [kind |-> "none", course |-> 0]

\* ------------------------------------------------------- top-level script
Init ==
    /\ srv \in Servers
    /\ budget = MaxFaults
    /\ pc = "me"
    /\ my_id = NoId
    /\ memberships = <<>>
    /\ courses = <<>>
    /\ semesters = <<>>
    /\ ci = 0
    /\ stack = <<>>
    /\ fs_dirs = {}
    /\ fs_files = <<>>
    /\ fetches = <<>>
    /\ downloads = <<>>
    /\ entered = <<>>
    /\ rootres = <<>>
    /\ err = NoErr

\* me = fetch_me(); my_id = me['id']
FetchMe ==
    /\ pc = "me"
    /\ \E o \in Outcomes :
         LET route == Route("me", NoId)
             r == Fetch(route, DefaultOffset, DefaultLimit, TRUE, o)
         IN /\ budget' = Spend(o)
            /\ fetches' = Append(fetches, FetchEntry(route, DefaultOffset, DefaultLimit, TRUE, r))
            /\ IF HasData(r.result)
               THEN /\ my_id' = r.result.data.id
                    /\ pc' = "memberships"
                    /\ UNCHANGED <<ci, stack, err>>
               ELSE /\ Raise("KeyError")
                    /\ UNCHANGED my_id
    /\ UNCHANGED <<srv, memberships, courses, semesters, fs_dirs, fs_files,
                   downloads, entered, rootres>>

\* fetch_my_courses: the memberships request
FetchMemberships ==
    /\ pc = "memberships"
    /\ \E o \in Outcomes :
         LET route == Route("memberships", my_id)
             r == Fetch(route, DefaultOffset, MembershipsLimit, FALSE, o)
         IN /\ budget' = Spend(o)
            /\ fetches' = Append(fetches, FetchEntry(route, DefaultOffset, MembershipsLimit, FALSE, r))
            /\ IF HasData(r.result)
               THEN /\ memberships' = r.result.data
                    /\ pc' = IF Len(r.result.data) = 0 THEN "semesters" ELSE "course"
                    /\ UNCHANGED <<ci, stack, err>>
               ELSE /\ Raise("KeyError")
                    /\ UNCHANGED memberships
    /\ UNCHANGED <<srv, my_id, courses, semesters, fs_dirs, fs_files,
                   downloads, entered, rootres>>

\* fetch_my_courses: fetch_course for the next membership
FetchCourse ==
    /\ pc = "course"
    /\ \E o \in Outcomes :
         LET membership == memberships[Len(courses) + 1]
             route == Route("course", membership.course)
             r == Fetch(route, DefaultOffset, DefaultLimit, TRUE, o)
         IN /\ budget' = Spend(o)
            /\ fetches' = Append(fetches, FetchEntry(route, DefaultOffset, DefaultLimit, TRUE, r))
            /\ IF HasData(r.result)
               THEN /\ courses' = Append(courses, r.result.data)
                    /\ pc' = IF Len(courses) + 1 = Len(memberships)
                             THEN "semesters" ELSE "course"
                    /\ UNCHANGED <<ci, stack, err>>
               ELSE /\ Raise("KeyError")
                    /\ UNCHANGED courses
    /\ UNCHANGED <<srv, my_id, memberships, semesters, fs_dirs, fs_files,
                   downloads, entered, rootres>>

\* fetch_semesters: the mapping from semester id to attributes
SemesterMap(list) ==
    [id \in {list[i].id : i \in 1..Len(list)} |->
        LET i == CHOOSE i \in 1..Len(list) :
                    /\ list[i].id = id
                    /\ \A j \in (i + 1)..Len(list) : list[j].id # id
        IN [title |-> list[i].title]]

FetchSemesters ==
    /\ pc = "semesters"
    /\ \E o \in Outcomes :
         LET route == Route("semesters", NoId)
             r == Fetch(route, DefaultOffset, SemestersLimit, FALSE, o)
         IN /\ budget' = Spend(o)
            /\ fetches' = Append(fetches, FetchEntry(route, DefaultOffset, SemestersLimit, FALSE, r))
            /\ IF HasData(r.result)
               THEN /\ semesters' = SemesterMap(r.result.data)
                    /\ pc' = "loop"
                    /\ ci' = 1
                    /\ UNCHANGED <<stack, err>>
               ELSE /\ Raise("KeyError")
                    /\ UNCHANGED semesters
    /\ UNCHANGED <<srv, my_id, memberships, courses, fs_dirs, fs_files,
                   downloads, entered, rootres>>

\* ------------------------------------------------------------ fetch_files
\* None as an argument: falsy, like ''
None == <<>>

\* the activation of fetch_files(id, semester, course, path, folder_id,
\* folder_name); loc is where it stands:
\*   "root"    line 81, about to resolve the root folder
\*   "refs"    line 88, the per-folder step
\*   "files"   the loop of line 91, at data[i]
\*   "subs"    line 100
\*   "subloop" the loop of line 103, at data[i]
\*   "return"  about to return
Call(id, semester, course, path, folder_id, folder_name) ==
    [id |-> id, semester |-> semester, course |-> course, path |-> path,
     folder_id |-> folder_id, folder_name |-> folder_name,
     loc |-> IF ~Truthy(folder_id) THEN "root" ELSE "refs",
     data |-> <<>>, i |-> 0]

Top == stack[Len(stack)]
SetTop(frame) == [stack EXCEPT ![Len(stack)] = frame]

EnterEntry(folder_id, path) == [folder |-> folder_id, path |-> path, course |-> ci]

\* for course in courses: semester_name = ...; fetch_files(...)
NextCourse ==
    /\ pc = "loop"
    /\ IF ci > Len(courses)
       THEN /\ pc' = "done"
            /\ UNCHANGED <<ci, stack, err>>
       ELSE IF courses[ci].sem \notin DOMAIN semesters
            THEN Raise("KeyError")
            ELSE /\ pc' = "files"
                 /\ stack' = <<Call(courses[ci].id, semesters[courses[ci].sem].title,
                                    courses[ci].title, <<>>, None, None)>>
                 /\ UNCHANGED <<ci, err>>
    /\ UNCHANGED <<srv, budget, my_id, memberships, courses, semesters, fs_dirs,
                   fs_files, fetches, downloads, entered, rootres>>

\* the loop of fetch_root_folder: the id of the first folder tagged as the
\* root, None if there is none
FindRoot(list) ==
    IF \E i \in 1..Len(list) : list[i].type = RootTag
    THEN list[CHOOSE i \in 1..Len(list) :
                 /\ list[i].type = RootTag
                 /\ \A j \in 1..(i - 1) : list[j].type # RootTag].id
    ELSE None

\* what fetch_root_folder returns for the response resp
fetch_root_folder(resp) == IF HasData(resp) THEN FindRoot(resp.data) ELSE None

\* fetch_files going on without a root folder
RootMissingIgnored(folder_id) == FALSE

\* line 83: if not folder_id: return
RootMissing(folder_id) == ~Truthy(folder_id)

FetchRootFolder ==
    /\ pc = "files"
    /\ Top.loc = "root"
    /\ \E o \in Outcomes :
         LET route == Route("course-folders", Top.id)
             r == Fetch(route, DefaultOffset, DefaultLimit, FALSE, o)
             folder_id == fetch_root_folder(r.result)
         IN /\ budget' = Spend(o)
            /\ fetches' = Append(fetches, FetchEntry(route, DefaultOffset, DefaultLimit, FALSE, r))
            /\ rootres' = Append(rootres, [course |-> ci, depth |-> Len(stack),
                                           status |-> r.status,
                                           body |-> r.result.kind,
                                           result |-> folder_id])
            /\ IF RootMissing(folder_id)
               THEN /\ stack' = SetTop([Top EXCEPT !.folder_id = folder_id,
                                                   !.folder_name = <<>>,
                                                   !.loc = "return"])
                    /\ UNCHANGED entered
               ELSE /\ stack' = SetTop([Top EXCEPT !.folder_id = folder_id,
                                                   !.folder_name = <<>>,
                                                   !.loc = "refs"])
                    /\ entered' = Append(entered, EnterEntry(folder_id, Top.path))
    /\ UNCHANGED <<srv, pc, my_id, memberships, courses, semesters, ci, fs_dirs,
                   fs_files, downloads, err>>

\* a listing whose empty response ends the activation
AfterListingReturns(result, loopIt, skipIt) ==
    IF NonEmpty(result)
    THEN IF HasData(result)
         THEN (IF Len(result.data) = 0 THEN skipIt ELSE loopIt)
         ELSE "raise"
    ELSE "return"

\* lines 89-91 and 101-103: what follows a listing: the loop over its data,
\* a KeyError when a non-empty response has no 'data', or skipIt when the
\* response is empty
AfterListing(result, loopIt, skipIt) ==
    IF NonEmpty(result)
    THEN IF HasData(result)
         THEN (IF Len(result.data) = 0 THEN skipIt ELSE loopIt)
         ELSE "raise"
    ELSE skipIt

\* the folder's directory made as soon as the folder is listed
DirsMadeOnListing(dirs, frame) ==
    dirs \cup {SubSeq(Split(DataDir \o <<Slash>> \o frame.semester \o <<Slash>>
                            \o frame.course \o <<Slash>> \o frame.path), 1, k) :
               k \in 1..Len(Split(DataDir \o <<Slash>> \o frame.semester \o <<Slash>>
                                  \o frame.course \o <<Slash>> \o frame.path))}

\* lines 88-90: listing a folder's files makes no directory
DirsAfterListing(dirs, frame) == dirs

FetchFileRefs ==
    /\ pc = "files"
    /\ Top.loc = "refs"
    /\ \E o \in Outcomes :
         LET route == Route("file-refs", Top.folder_id)
             r == Fetch(route, DefaultOffset, FileRefsLimit, FALSE, o)
             next == AfterListing(r.result, "files", "subs")
         IN /\ budget' = Spend(o)
            /\ fetches' = Append(fetches, FetchEntry(route, DefaultOffset, FileRefsLimit, FALSE, r))
            /\ fs_dirs' = DirsAfterListing(fs_dirs, Top)
            /\ IF next = "raise"
               THEN Raise("KeyError")
               ELSE /\ stack' = SetTop([Top EXCEPT !.loc = next,
                                                   !.data = r.result.data,
                                                   !.i = 1])
                    /\ UNCHANGED <<pc, ci, err>>
    /\ UNCHANGED <<srv, my_id, memberships, courses, semesters, fs_files,
                   downloads, entered, rootres>>

\* ---------------------------------------------------------- download_file
\* download_file replacing '/' in the semester name only
download_path_course_raw(semester_name, course_name, studip_path) ==
    DataDir \o <<Slash>> \o Replace(semester_name, Slash, Underscore)
            \o <<Slash>> \o course_name
            \o <<Slash>> \o studip_path

\* lines 65-69: the directory download_file creates
download_path(semester_name, course_name, studip_path) ==
    DataDir \o <<Slash>> \o Replace(semester_name, Slash, Underscore)
            \o <<Slash>> \o Replace(course_name, Slash, Underscore)
            \o <<Slash>> \o studip_path

\* line 74: the file download_file opens
download_dest(path, filename) == path \o <<Slash>> \o filename

\* os.makedirs(path, exist_ok=True) fails when a level of path is a file
MakedirsFails(files, path) ==
    \E k \in 1..Len(Split(path)) : SubSeq(Split(path), 1, k) \in DOMAIN files

Makedirs(dirs, path) ==
    dirs \cup {SubSeq(Split(path), 1, k) : k \in 1..Len(Split(path))}

\* open(dest, 'wb') fails when dest is a directory or its directory is missing
OpenFails(dirs, dest) ==
    \/ Split(dest) \in dirs
    \/ Front(Split(dest)) \notin dirs

\* lines 73-75: what is written is the body of the response, whatever its status
Written(file, status) ==
    [file |-> file, body |-> IF status = StatusOK THEN "content" ELSE "error"]

WriteFile(files, dest, content) ==
    [p \in DOMAIN files \cup {Split(dest)} |->
        IF p = Split(dest) THEN content ELSE files[p]]

\* lines 92-96: the path a file of the current folder is downloaded to
FilePath(path, folder_name) ==
    IF Truthy(folder_name)
    THEN IF Truthy(path) THEN path \o <<Slash>> \o folder_name ELSE folder_name
    ELSE path

\* one round of the loop of line 91
DownloadFile ==
    /\ pc = "files"
    /\ Top.loc = "files"
    /\ LET f == Top.data[Top.i]
           path == FilePath(Top.path, Top.folder_name)
           dir == download_path(Top.semester, Top.course, path)
           dest == download_dest(dir, f.name)
           after == [Top EXCEPT !.path = path,
                                !.i = Top.i + 1,
                                !.loc = IF Top.i = Len(Top.data) THEN "subs" ELSE "files"]
           entry == [file |-> f.id, folder |-> Top.folder_id, course |-> ci,
                     semester |-> Top.semester, title |-> Top.course,
                     path |-> path, name |-> f.name, dir |-> dir, dest |-> dest]
       IN IF MakedirsFails(fs_files, dir)
          THEN /\ Raise("OSError")
               /\ downloads' = Append(downloads, entry @@ [gets |-> 0, status |-> 0, wrote |-> FALSE])
               /\ UNCHANGED <<budget, fs_dirs, fs_files>>
          ELSE \E o \in ContentOutcomes :
                 LET status == IF o = "ok" THEN StatusOK ELSE StatusNotFound
                 IN /\ budget' = Spend(o)
                    /\ fs_dirs' = Makedirs(fs_dirs, dir)
                    /\ IF OpenFails(fs_dirs', dest)
                       THEN /\ Raise("OSError")
                            /\ downloads' = Append(downloads,
                                  entry @@ [gets |-> 1, status |-> status, wrote |-> FALSE])
                            /\ UNCHANGED fs_files
                       ELSE /\ fs_files' = WriteFile(fs_files, dest, Written(f.id, status))
                            /\ downloads' = Append(downloads,
                                  entry @@ [gets |-> 1, status |-> status, wrote |-> TRUE])
                            /\ stack' = SetTop(after)
                            /\ UNCHANGED <<pc, ci, err>>
    /\ UNCHANGED <<srv, my_id, memberships, courses, semesters, fetches,
                   entered, rootres>>

FetchSubfolders ==
    /\ pc = "files"
    /\ Top.loc = "subs"
    /\ \E o \in Outcomes :
         LET route == Route("folders", Top.folder_id)
             r == Fetch(route, DefaultOffset, SubfoldersLimit, FALSE, o)
             next == AfterListing(r.result, "subloop", "return")
         IN /\ budget' = Spend(o)
            /\ fetches' = Append(fetches, FetchEntry(route, DefaultOffset, SubfoldersLimit, FALSE, r))
            /\ IF next = "raise"
               THEN Raise("KeyError")
               ELSE /\ stack' = SetTop([Top EXCEPT !.loc = next,
                                                   !.data = r.result.data,
                                                   !.i = 1])
                    /\ UNCHANGED <<pc, ci, err>>
    /\ UNCHANGED <<srv, my_id, memberships, courses, semesters, fs_dirs, fs_files,
                   downloads, entered, rootres>>

\* the recursive call handing the subfolder's name over as folder_name
CallFolderNameGiven(f) == f.name

\* line 104: the folder_name argument of the recursive call is left out
CallFolderName(f) == None

\* one round of the loop of line 103: the recursive call
Recurse ==
    /\ pc = "files"
    /\ Top.loc = "subloop"
    /\ LET f == Top.data[Top.i]
           callee == Call(Top.id, Top.semester, Top.course,
                          Top.path \o f.name \o <<Slash>>, f.id, CallFolderName(f))
           caller == [Top EXCEPT !.i = Top.i + 1,
                                 !.loc = IF Top.i = Len(Top.data) THEN "return" ELSE "subloop"]
       IN /\ stack' = Append(SetTop(caller), callee)
          /\ entered' = IF callee.loc = "refs"
                        THEN Append(entered, EnterEntry(callee.folder_id, callee.path))
                        ELSE entered
    /\ UNCHANGED <<srv, budget, pc, my_id, memberships, courses, semesters, ci,
                   fs_dirs, fs_files, fetches, downloads, rootres, err>>

\* fetch_files returns; the outermost one ends the round of the course loop
Return ==
    /\ pc = "files"
    /\ Top.loc = "return"
    /\ stack' = Front(stack)
    /\ IF Len(stack) = 1
       THEN /\ pc' = "loop"
            /\ ci' = ci + 1
       ELSE UNCHANGED <<pc, ci>>
    /\ UNCHANGED <<srv, budget, my_id, memberships, courses, semesters, fs_dirs,
                   fs_files, fetches, downloads, entered, rootres, err>>

Next ==
    \/ FetchMe
    \/ FetchMemberships
    \/ FetchCourse
    \/ FetchSemesters
    \/ NextCourse
    \/ FetchRootFolder
    \/ FetchFileRefs
    \/ DownloadFile
    \/ FetchSubfolders
    \/ Recurse
    \/ Return

Spec == Init /\ [][Next]_vars

\* ------------------------------------------- what the server's trees say
\* the folder of course c that lists folder k as a subfolder
ParentOf(c, k) ==
    CHOOSE p \in 1..Len(srv[c].tree) :
        \E j \in 1..Len(srv[c].tree[p].subs) : srv[c].tree[p].subs[j] = k

\* the names of the folders from the root (excluded) down to folder k
RECURSIVE FolderNames(_, _)
FolderNames(c, k) ==
    IF k = 1 THEN <<>>
    ELSE Append(FolderNames(c, ParentOf(c, k)), srv[c].tree[k].name)

HasSlash(s) == \E i \in 1..Len(s) : s[i] = Slash

\* the directory names the semester and the course of course c stand for
TopDirs(c) ==
    <<DataDir, Replace(SemesterTable[srv[c].sem], Slash, Underscore),
      Replace(srv[c].title, Slash, Underscore)>>

\* the local path that corresponds to folder k of course c
LocalPath(c, k) == TopDirs(c) \o FolderNames(c, k)

\* the local path claimed for the download e: one level per folder name
ExpectedDest(e) == LocalPath(e.folder[1], e.folder[2]) \o <<e.name>>

SlashFree(e) ==
    /\ ~HasSlash(e.name)
    /\ \A i \in 1..Len(FolderNames(e.folder[1], e.folder[2])) :
          ~HasSlash(FolderNames(e.folder[1], e.folder[2])[i])

Downloads == {downloads[i] : i \in 1..Len(downloads)}
Fetches == {fetches[i] : i \in 1..Len(fetches)}

\* ---------------------------------------------------------------- claims

\* C1 (as stated): every file of every folder reached is downloaded to
\* data/<semester>/<course>/<P>/<name>, the directory levels after the
\* course being exactly the names of the folders from the root down to the
\* file's folder, one level per folder.
C1_DestIsFolderPath ==
    \A e \in Downloads : Split(e.dest) = ExpectedDest(e)

\* C1 (amended): the same, for the files whose name and whose folders' names
\* hold no '/': the path download_file builds and opens has, after the
\* course, exactly one level per folder from the root down, then the file
\* name; and a file that was written is at that path.
C1_DestIsFolderPathSlashFree ==
    \A e \in Downloads :
        SlashFree(e) =>
            /\ Split(e.dest) = ExpectedDest(e)
            /\ Split(e.dir) = Front(ExpectedDest(e))
            /\ e.wrote => ExpectedDest(e) \in DOMAIN fs_files

\* C1 witness: a root-level file, both files of one folder and a file two
\* folders deep have been written, none with a '/' in a name
C1_Witness ==
    /\ \E e \in Downloads :
          e.wrote /\ SlashFree(e) /\ Len(FolderNames(e.folder[1], e.folder[2])) = 0
    /\ \E e \in Downloads :
          e.wrote /\ SlashFree(e) /\ Len(FolderNames(e.folder[1], e.folder[2])) = 2
    /\ \E e1, e2 \in Downloads :
          /\ e1.wrote /\ e2.wrote /\ SlashFree(e1)
          /\ e1.folder = e2.folder /\ e1.file # e2.file

\* C2: a non-success status for a folder's file-refs route downloads no file
\* of that folder and raises nothing: the next request is the listing of
\* the same folder's subfolders, and, that listing succeeding and the run
\* completing, each subfolder it returns is entered.
C2_RefsFailureSkipsFilesOnly ==
    \A i \in 1..Len(fetches) :
        (fetches[i].route.kind = "file-refs" /\ fetches[i].status # StatusOK) =>
            LET F == fetches[i].route.id
                subs == Page(Resource(Route("folders", F)), <<DefaultOffset, SubfoldersLimit>>)
            IN /\ \A e \in Downloads : e.folder # F
               /\ IF i = Len(fetches)
                  THEN /\ pc = "files"
                       /\ err = NoErr
                       /\ Top.folder_id = F
                       /\ Top.loc = "subs"
                  ELSE /\ fetches[i + 1].route = Route("folders", F)
                       /\ Len(fetches[i + 1].gets) = 1
               /\ (pc = "done" /\ fetches[i + 1].result = "data") =>
                     \A j \in 1..Len(subs) :
                        \E n \in 1..Len(entered) : entered[n].folder = subs[j].id

\* C2 witness: the run is complete, the file-refs listing of a folder that
\* has files and a subfolder failed, and that subfolder's file was written
C2_Witness ==
    /\ pc = "done"
    /\ \E i \in 1..Len(fetches) :
          /\ fetches[i].route.kind = "file-refs"
          /\ fetches[i].status # StatusOK
          /\ Len(Folder(fetches[i].route.id).files) > 0
          /\ Len(Folder(fetches[i].route.id).subs) > 0
          /\ \E e \in Downloads :
                /\ e.wrote
                /\ e.folder[1] = fetches[i].route.id[1]
                /\ e.folder[2] = Folder(fetches[i].route.id).subs[1]

HasRootEntry(c) == \E i \in 1..Len(srv[c].list) : srv[c].list[i] = 1

\* C3: when the folder list of a course has no root entry, or its fetch
\* fails, fetch_root_folder returns None; and whenever it returns None,
\* fetch_files returns for that course with no file-refs, subfolder or
\* content request, no directory or file written and nothing raised, and
\* the course loop goes on with the next course.
C3_NoRootSkipsCourse ==
    \A n \in 1..Len(rootres) :
        LET k == rootres[n].course
        IN /\ (rootres[n].status # StatusOK \/ ~HasRootEntry(k)) => rootres[n].result = None
           /\ rootres[n].result = None =>
                /\ \A e \in Fetches :
                      e.course = k => e.route.kind \notin {"file-refs", "folders"}
                /\ \A e \in Downloads : e.course # k
                /\ \A m \in 1..Len(entered) : entered[m].course # k
                /\ Downloads = {} => fs_dirs = {} /\ DOMAIN fs_files = {}
                /\ err.course # k
                /\ ci >= k
                /\ ci = k => pc = "files" /\ Len(stack) = 1 /\ Top.loc = "return"
                /\ (pc = "done" /\ k < Len(courses)) =>
                      \E m \in 1..Len(rootres) : rootres[m].course = k + 1

\* C3 witness: the first course's list had no root entry, nothing was
\* requested for it, and the second course's file has been written
C3_Witness ==
    /\ pc = "done"
    /\ \E n \in 1..Len(rootres) :
          /\ rootres[n].course = 1
          /\ rootres[n].status = StatusOK
          /\ ~HasRootEntry(1)
          /\ rootres[n].result = None
    /\ \E e \in Downloads : e.course = 2 /\ e.wrote

\* C4: no local file is created or overwritten for a file whose content
\* request did not succeed.
C4_FailedContentNotWritten ==
    /\ \A e \in Downloads : (e.gets = 1 /\ e.status # StatusOK) => ~e.wrote
    /\ \A p \in DOMAIN fs_files : fs_files[p].body # "error"

\* the number of '/' in the names
RECURSIVE Slashes(_)
Slashes(names) ==
    IF Len(names) = 0 THEN 0
    ELSE Cardinality({i \in 1..Len(names[1]) : names[1][i] = Slash})
         + Slashes(SubSeq(names, 2, Len(names)))

\* one directory level per '/'-separated part of each name
RECURSIVE Levels(_)
Levels(names) ==
    IF Len(names) = 0 THEN <<>>
    ELSE Split(names[1]) \o Levels(SubSeq(names, 2, Len(names)))

\* C5: in the path of every download, the semester and the course are one
\* directory level each, their names with every '/' turned into '_'; the
\* folder names and the file name follow as they are, a '/' in one of them
\* starting a further level.
C5_TopLevelsSanitized ==
    \A e \in Downloads :
        LET segs == Split(e.dest)
            sem == SemesterTable[srv[e.course].sem]
            title == srv[e.course].title
            names == Append(FolderNames(e.folder[1], e.folder[2]), e.name)
        IN /\ Len(segs) >= 3
           /\ segs[1] = DataDir
           /\ Len(segs[2]) = Len(sem)
           /\ \A i \in 1..Len(sem) :
                 segs[2][i] = (IF sem[i] = Slash THEN Underscore ELSE sem[i])
           /\ Len(segs[3]) = Len(title)
           /\ \A i \in 1..Len(title) :
                 segs[3][i] = (IF title[i] = Slash THEN Underscore ELSE title[i])
           /\ SubSeq(segs, 4, Len(segs)) = Levels(names)
           /\ Len(segs) = 3 + Len(names) + Slashes(names)

\* C5 witness: a file was written for a course whose semester, title and
\* folder all have a '/' in their names
C5_Witness ==
    \E e \in Downloads :
        /\ e.wrote
        /\ HasSlash(SemesterTable[srv[e.course].sem])
        /\ HasSlash(srv[e.course].title)
        /\ \E i \in 1..Len(FolderNames(e.folder[1], e.folder[2])) :
              HasSlash(FolderNames(e.folder[1], e.folder[2])[i])

\* C6: every call of fetch issues exactly one GET, of the route it was
\* given; it returns {} exactly when the status is not 200 and the body
\* otherwise; the URL carries page[offset] and page[limit] exactly when
\* noparams is false.
C6_OneGetPerFetch ==
    \A e \in Fetches :
        /\ Len(e.gets) = 1
        /\ e.gets[1].route = e.route
        /\ (e.result = "empty") <=> (e.status # StatusOK)
        /\ e.status = StatusOK => e.result \in {"data", "nokey"}
        /\ (e.gets[1].query # <<>>) <=> ~e.noparams
        /\ ~e.noparams => e.gets[1].query = <<e.offset, e.limit>>

\* C6 witness: fetch has been called without pagination and got 200, and
\* with pagination and got another status
C6_Witness ==
    /\ \E e \in Fetches : e.noparams /\ e.status = StatusOK /\ e.result = "data"
    /\ \E e \in Fetches : ~e.noparams /\ e.status # StatusOK /\ e.result = "empty"

EmptyFolders ==
    {F \in UNION {{<<c, k>> : k \in 1..Len(srv[c].tree)} : c \in 1..Len(srv)} :
        LET c == F[1]
            k == F[2]
        IN
        /\ Len(srv[c].tree[k].files) = 0
        /\ Len(srv[c].tree[k].subs) = 0}

NothingAtOrBelow(path) ==
    /\ \A d \in fs_dirs : ~IsPrefix(path, d)
    /\ \A p \in DOMAIN fs_files : ~IsPrefix(path, p)

\* C7 (as stated): for every folder without files and subfolders, no
\* directory and no file exists at or below the folder's local path.
C7_EmptyFolderNoOutput ==
    \A F \in EmptyFolders : NothingAtOrBelow(LocalPath(F[1], F[2]))

\* C7 (amended): the same, unless the download of a file of another folder
\* has its destination at or below that path.
C7_EmptyFolderNoOwnOutput ==
    \A F \in EmptyFolders :
        (\A e \in Downloads : ~IsPrefix(LocalPath(F[1], F[2]), Split(e.dest)))
            => NothingAtOrBelow(LocalPath(F[1], F[2]))

\* C7 witness: the run is complete, an empty folder was entered, files of
\* its course were written and none of them at or below its path
C7_Witness ==
    /\ pc = "done"
    /\ \E F \in EmptyFolders :
          /\ \E n \in 1..Len(entered) : entered[n].folder = F
          /\ \E e \in Downloads : e.wrote /\ e.course = F[1] /\ Len(e.folder) = 2 /\ e.folder[2] # 1
          /\ \A e \in Downloads : ~IsPrefix(LocalPath(F[1], F[2]), Split(e.dest))

NonDecreasing(log) ==
    \A i, j \in 1..Len(log) : i < j => log[i].course <= log[j].course

\* C8: the courses are mirrored one after the other in membership order;
\* once a key is missing from a successful response while course k is
\* processed the run is over: nothing was requested, entered or written
\* for a later course, and the files written before are on disk.
C8_ErrorEndsRun ==
    /\ \A i \in 1..Len(courses) : courses[i].id = <<i>>
    /\ NonDecreasing(fetches) /\ NonDecreasing(downloads) /\ NonDecreasing(entered)
    /\ err.kind = "KeyError" =>
          /\ pc = "aborted"
          /\ \A e \in Fetches : e.course <= err.course
          /\ \A e \in Downloads : e.course <= err.course
          /\ \A n \in 1..Len(entered) : entered[n].course <= err.course
          /\ \A p \in DOMAIN fs_files : fs_files[p].file[1] <= err.course
          /\ \A e \in Downloads : e.wrote => Split(e.dest) \in DOMAIN fs_files

\* C8 witness: a key was missing while the first of two courses was
\* processed, after a file of that course had been written
C8_Witness ==
    /\ err.kind = "KeyError"
    /\ err.course = 1
    /\ Len(courses) = 2
    /\ \E e \in Downloads : e.wrote /\ e.course = 1

\* C9: when all requests of a run succeeded, every course's root folder was
\* resolved once, every folder of its tree was entered exactly once and
\* every file reference was downloaded exactly once.
C9_EachFolderOnce ==
    (pc = "done" /\ budget = MaxFaults) =>
        \A c \in 1..Len(srv) :
            HasRootEntry(c) =>
                /\ Cardinality({n \in 1..Len(rootres) : rootres[n].course = c}) = 1
                /\ \A k \in 1..Len(srv[c].tree) :
                      /\ Cardinality({n \in 1..Len(entered) :
                                         entered[n].folder = <<c, k>>}) = 1
                      /\ \A j \in 1..Len(srv[c].tree[k].files) :
                            Cardinality({n \in 1..Len(downloads) :
                                            downloads[n].file = <<c, k, j>>}) = 1

\* C10: whenever the folder list of a course has an entry tagged as the
\* root and the list request succeeds, fetch_root_folder returns that
\* folder's id.
C10_RootFound ==
    \A n \in 1..Len(rootres) :
        (rootres[n].status = StatusOK /\ rootres[n].body = "data"
            /\ HasRootEntry(rootres[n].course))
        => rootres[n].result = <<rootres[n].course, 1>>

====
